---- MODULE Spec2Model ----
(***************************************************************************)
(* Model of the remote session client of the codespaces CLI:               *)
(*   - ConnectToLiveshare      (internal/codespaces/states.go)             *)
(*   - PollPostCreateStates    (internal/codespaces/states.go)             *)
(*   - rpcClient / rpcHandler  (liveshare rpc engine)                      *)
(*   - Session.startSharing / WaitForPortNotification (liveshare/ports.go) *)
(***************************************************************************)
EXTENDS Integers, Sequences, FiniteSets, TLC

(***************************************************************************)
(* Connection lifecycle controller: ConnectToLiveshare                     *)
(***************************************************************************)
VARIABLES
    cpc,        \* position of ConnectToLiveshare
    given,      \* the workspace record ConnectToLiveshare was called with
    codespace,  \* the workspace record most recently obtained
    retries,    \* loop counter of the poll loop
    clog,       \* requests issued so far, in order (start, sleep, polls, join)
    joinDesc,   \* the liveshare.Connection handed to NewClient / JoinWorkspace
    joinRelay,  \* the relay JoinWorkspace dialled: its password and its joinWorkspace reply
    joinRet,    \* what JoinWorkspace returned
    cresult     \* what ConnectToLiveshare returned

connVars == <<cpc, given, codespace, retries, clog, joinDesc, joinRelay, joinRet, cresult>>

(***************************************************************************)
(* Remote state poller: PollPostCreateStates                               *)
(***************************************************************************)
VARIABLES
    ppc,         \* position of PollPostCreateStates
    pctxDone,    \* ctx.Done() of the poller's context is closed
    cancelPoint, \* where the poller was when its context was cancelled
    connClosed,  \* an error is waiting in the tunnel's connClosed channel
    closedFired, \* the tunnel has signalled connClosed at some time
    tickReady,   \* a tick is waiting in t.C
    ticksFired,  \* ticks the ticker has produced
    readLog,     \* outcome of every getPostCreateOutput call, in order
    sinkLog,     \* every batch handed to poller(states), in order
    presult      \* what PollPostCreateStates returned

pollVars == <<ppc, pctxDone, cancelPoint, connClosed, closedFired, tickReady,
              ticksFired, readLog, sinkLog, presult>>

(***************************************************************************)
(* RPC engine: rpcClient.do over one jsonrpc2 connection                    *)
(***************************************************************************)
VARIABLES
    closed,      \* the transport has closed (the connection is disconnected)
    seq,         \* the next correlation id the connection assigns
    pending,     \* correlation ids of the connection's pending calls
    calls,       \* per caller: position in do, correlation id, done channel, result
    rctx,        \* callers whose context has been cancelled
    relayInbox,  \* requests the relay has received and not yet answered
    respLog      \* responses the relay has returned, in arrival order

rpcVars == <<closed, seq, pending, calls, rctx, relayInbox, respLog>>

(***************************************************************************)
(* Session.startSharing, WaitForPortNotification and the rpcHandler        *)
(***************************************************************************)
VARIABLES
    port,               \* the port argument of startSharing
    sessionName,        \* the sessionName argument of startSharing
    spc,                \* position of startSharing
    wpc,                \* position of the goroutine running WaitForPortNotification
    eventHandlers,      \* rpcHandler.eventHandlers: method -> channels, in order
    listeners,          \* per registered channel: its method, callback and receiver state
    deliveries,         \* the goroutines Handle has spawned and that still run
    notificationUpdate, \* WaitForPortNotification's notificationUpdate channel (capacity 1)
    werrc,              \* WaitForPortNotification's errc channel (capacity 1)
    errc,               \* startSharing's errc channel (capacity 1)
    arrived,            \* the notifications handled so far
    ssresult            \* what startSharing returned

shareVars == <<port, sessionName, spc, wpc, eventHandlers, listeners, deliveries,
               notificationUpdate, werrc, errc, arrived, ssresult>>

(***************************************************************************)
(* Client, Client.Join and NewServer                                       *)
(***************************************************************************)
VARIABLES
    client,      \* the liveshare Client: its connection and the session number it joined
    clientRelay, \* the relay Client.Join dialled
    clientJoin,  \* what Client.Join returned
    nsresult     \* what NewServer(client) returned

serverVars == <<client, clientRelay, clientJoin, nsresult>>

(***************************************************************************)
(* rpcHandler.mutex and the accesses to rpcHandler.eventHandlers           *)
(***************************************************************************)
VARIABLES
    mutex,      \* rpcHandler.mutex: the call that holds it and how far that call has got
    lastWrite,  \* the latest write to the eventHandlers map: who wrote, under the mutex or not
    fatal       \* the Go runtime has stopped the program on a concurrent map access

lockVars == <<mutex, lastWrite, fatal>>

(***************************************************************************)
(* PullRequestList                                                         *)
(***************************************************************************)
VARIABLES
    limit,      \* the limit argument
    total,      \* how many pull requests the server has for the query
    prs,        \* the pull requests collected so far, by their rank in the server's order
    pageLimit,  \* the page size of the next request
    endCursor,  \* variables["endCursor"]: the rank after which the next page starts
    requests,   \* the requests sent: page size asked, cursor, items held at that time
    pages,      \* the pages received: their size and hasNextPage
    plpc,       \* position of PullRequestList
    plresult    \* what PullRequestList returned

listVars == <<limit, total, prs, pageLimit, endCursor, requests, pages, plpc, plresult>>

otherThanConn == <<pollVars, rpcVars, shareVars, serverVars, lockVars, listVars>>
otherThanPoll == <<connVars, rpcVars, shareVars, serverVars, lockVars, listVars>>
otherThanRpc == <<connVars, pollVars, shareVars, serverVars, lockVars, listVars>>
otherThanShare == <<connVars, pollVars, serverVars, lockVars, listVars>>
otherThanServer == <<connVars, pollVars, rpcVars, shareVars, lockVars, listVars>>
otherThanRegistry == <<connVars, pollVars, rpcVars, serverVars, listVars>>
otherThanList == <<connVars, pollVars, rpcVars, shareVars, serverVars, lockVars>>

\* api.CodespaceEnvironmentStateAvailable
Available == "Available"

\* the retry budget of the poll loop
MaxRetries == 30

EnvStates == {Available, "Shutdown"}

\* the workspace records the API can return; "" is the empty string
Codespaces ==
    [State : EnvStates, SessionID : {"", "id"}, SessionToken : {"", "token"},
     RelayEndpoint : {"", "endpoint"}, RelaySAS : {"", "sas"}]

NoDesc == [SessionID |-> "", SessionToken |-> "", RelaySAS |-> "", RelayEndpoint |-> ""]

JoinErrors == {"authentication failed", "protocol error"}

NoResult == [kind |-> "none", msg |-> ""]

\* the relay a join dials: the session token it accepts as password, and what its
\* workspace.joinWorkspace service answers
JoinRelays == [password : {"token", "expired"}, reply : {"sessionNumber", "malformed"}]

NoRelay == [password |-> "", reply |-> ""]

\* a join that does not depend on the relay accepting the token
JoinSkipsAuthentication(desc, relay) ==
    IF relay.reply # "sessionNumber"
       THEN [kind |-> "error", msg |-> "protocol error"]
       ELSE [kind |-> "session", msg |-> ""]

\* Session.join: the transport is authenticated with the session token; the relay
\* rejecting it is an authentication error; then workspace.joinWorkspace is called,
\* and a reply without a session number is a protocol error
Join(desc, relay) ==
    IF desc.SessionToken # relay.password
       THEN [kind |-> "error", msg |-> "authentication failed"]
       ELSE IF relay.reply # "sessionNumber"
               THEN [kind |-> "error", msg |-> "protocol error"]
               ELSE [kind |-> "session", msg |-> ""]

Count(s, e) == Cardinality({i \in 1..Len(s) : s[i] = e})

connectionReadyNoSAS(c) ==
    /\ c.SessionID # ""
    /\ c.SessionToken # ""
    /\ c.RelayEndpoint # ""
    /\ c.State = Available

connectionReady(c) ==
    /\ c.SessionID # ""
    /\ c.SessionToken # ""
    /\ c.RelayEndpoint # ""
    /\ c.RelaySAS # ""
    /\ c.State = Available

\* the liveshare.Connection built from the record
Connection(c) ==
    [SessionID |-> c.SessionID, SessionToken |-> c.SessionToken,
     RelaySAS |-> c.RelaySAS, RelayEndpoint |-> c.RelayEndpoint]

ConnectStart ==
    /\ cpc = "start"
    /\ given \in Codespaces
    /\ codespace = given
    /\ retries = 0
    /\ clog = <<>>
    /\ joinDesc = NoDesc
    /\ joinRelay = NoRelay
    /\ joinRet = NoResult
    /\ cresult = NoResult

NeedsStartAlways(c) == TRUE

NeedsStartNever(c) == FALSE

\* if codespace.Environment.State != api.CodespaceEnvironmentStateAvailable
NeedsStart(c) == c.State # Available

RetriesExhaustedLate(r) == r = MaxRetries + 1

\* if retries == 30
RetriesExhausted(r) == r = MaxRetries

\* if State != Available: StartCodespace, which may fail
StartCodespace ==
    /\ cpc = "start"
    /\ IF NeedsStart(codespace)
          THEN /\ clog' = Append(clog, "start")
               /\ \E ok \in BOOLEAN :
                    IF ok
                       THEN cpc' = "loop" /\ cresult' = cresult
                       ELSE /\ cpc' = "done"
                            /\ cresult' = [kind |-> "error", msg |-> "error starting Codespace"]
          ELSE cpc' = "loop" /\ UNCHANGED <<clog, cresult>>
    /\ UNCHANGED <<given, codespace, retries, joinDesc, joinRelay, joinRet>>
    /\ UNCHANGED otherThanConn

\* the loop condition: for ...; !connectionReady(codespace); ...
LoopCondition ==
    /\ cpc = "loop"
    /\ cpc' = IF connectionReady(codespace) THEN "connect" ELSE "body"
    /\ UNCHANGED <<given, codespace, retries, clog, joinDesc, joinRelay, joinRet, cresult>>
    /\ UNCHANGED otherThanConn

\* if retries > 1 { ...; time.Sleep(1 * time.Second) }
LoopSleep ==
    /\ cpc = "body"
    /\ clog' = IF retries > 1 THEN Append(clog, "sleep") ELSE clog
    /\ cpc' = "check"
    /\ UNCHANGED <<given, codespace, retries, joinDesc, joinRelay, joinRet, cresult>>
    /\ UNCHANGED otherThanConn

\* a loop that goes round again when GetCodespace fails
LoopFetchRetries ==
    /\ cpc = "check"
    /\ IF RetriesExhausted(retries)
          THEN /\ cpc' = "done"
               /\ cresult' = [kind |-> "error",
                              msg |-> "timed out while waiting for the Codespace to start"]
               /\ UNCHANGED <<codespace, retries, clog>>
          ELSE \/ /\ clog' = Append(clog, "pollError")
                  /\ retries' = retries + 1
                  /\ cpc' = "loop"
                  /\ UNCHANGED <<codespace, cresult>>
               \/ \E c \in Codespaces :
                    /\ codespace' = c
                    /\ clog' = Append(clog, IF connectionReady(c) THEN "pollReady"
                                                                 ELSE "pollUnready")
                    /\ retries' = retries + 1
                    /\ cpc' = "loop"
                    /\ cresult' = cresult
    /\ UNCHANGED <<given, joinDesc, joinRelay, joinRet>>
    /\ UNCHANGED otherThanConn

\* if retries == 30 { return timed out }
\* codespace, err = apiClient.GetCodespace(...); retries++
LoopFetch ==
    /\ cpc = "check"
    /\ IF RetriesExhausted(retries)
          THEN /\ cpc' = "done"
               /\ cresult' = [kind |-> "error",
                              msg |-> "timed out while waiting for the Codespace to start"]
               /\ UNCHANGED <<codespace, retries, clog>>
          ELSE \/ /\ clog' = Append(clog, "pollError")
                  /\ cpc' = "done"
                  /\ cresult' = [kind |-> "error", msg |-> "error getting Codespace"]
                  /\ UNCHANGED <<codespace, retries>>
               \/ \E c \in Codespaces :
                    /\ codespace' = c
                    /\ clog' = Append(clog, IF connectionReady(c) THEN "pollReady"
                                                                 ELSE "pollUnready")
                    /\ retries' = retries + 1
                    /\ cpc' = "loop"
                    /\ cresult' = cresult
    /\ UNCHANGED <<given, joinDesc, joinRelay, joinRet>>
    /\ UNCHANGED otherThanConn

\* a ConnectToLiveshare that wraps the error of JoinWorkspace
JoinWorkspaceWraps ==
    /\ cpc = "connect"
    /\ cpc' = "done"
    /\ \/ /\ cresult' = [kind |-> "error", msg |-> "error creating Live Share client"]
          /\ UNCHANGED <<clog, joinDesc, joinRelay, joinRet>>
       \/ \E relay \in JoinRelays :
            /\ joinDesc' = Connection(codespace)
            /\ clog' = Append(clog, "join")
            /\ joinRelay' = relay
            /\ joinRet' = Join(Connection(codespace), relay)
            /\ cresult' = IF joinRet'.kind = "error"
                             THEN [kind |-> "error", msg |-> "error joining workspace"]
                             ELSE joinRet'
    /\ UNCHANGED <<given, codespace, retries>>
    /\ UNCHANGED otherThanConn

\* liveshare.NewClient(WithConnection(...)), then return lsclient.JoinWorkspace(ctx)
JoinWorkspace ==
    /\ cpc = "connect"
    /\ cpc' = "done"
    /\ \/ /\ cresult' = [kind |-> "error", msg |-> "error creating Live Share client"]
          /\ UNCHANGED <<clog, joinDesc, joinRelay, joinRet>>
       \/ \E relay \in JoinRelays :
            /\ joinDesc' = Connection(codespace)
            /\ clog' = Append(clog, "join")
            /\ joinRelay' = relay
            /\ joinRet' = Join(Connection(codespace), relay)
            /\ cresult' = joinRet'
    /\ UNCHANGED <<given, codespace, retries>>
    /\ UNCHANGED otherThanConn

NextConnect ==
    \/ StartCodespace
    \/ LoopCondition
    \/ LoopSleep
    \/ LoopFetch
    \/ JoinWorkspace

(***************************************************************************)
(* PollPostCreateStates                                                    *)
(***************************************************************************)

\* ticks of the 1-second ticker that are explored
MaxTicks == 3

PostCreateStateStatus == {"running", "succeeded", "failed"}

\* the batches (output.Steps) a remote read can parse
Batches ==
    {<<>>,
     <<[Name |-> "build", Status |-> "running"]>>,
     <<[Name |-> "build", Status |-> "succeeded"], [Name |-> "setup", Status |-> "failed"]>>}

ReadErrors == {"run command", "unmarshal output"}

ConnectIdle ==
    /\ cpc = "start" /\ given = [State |-> Available, SessionID |-> "id", SessionToken |-> "token",
                                  RelayEndpoint |-> "endpoint", RelaySAS |-> "sas"]
    /\ codespace = given /\ retries = 0 /\ clog = <<>> /\ joinDesc = NoDesc
    /\ joinRelay = NoRelay /\ joinRet = NoResult
    /\ cresult = NoResult

PollInit ==
    /\ ppc = "setup"
    /\ pctxDone = FALSE
    /\ cancelPoint = "none"
    /\ connClosed = FALSE
    /\ closedFired = FALSE
    /\ tickReady = FALSE
    /\ ticksFired = 0
    /\ readLog = <<>>
    /\ sinkLog = <<>>
    /\ presult = NoResult

SetupErrors == {"getting codespace token", "connect to liveshare", "make ssh tunnel"}

\* GetCodespaceToken, ConnectToLiveshare, StartPortForwarding, time.NewTicker
PollSetup ==
    /\ ppc = "setup"
    /\ \/ ppc' = "select" /\ presult' = presult
       \/ \E e \in SetupErrors : ppc' = "done" /\ presult' = [kind |-> "error", msg |-> e]
    /\ UNCHANGED <<pctxDone, cancelPoint, connClosed, closedFired, tickReady, ticksFired,
                   readLog, sinkLog>>
    /\ UNCHANGED otherThanPoll

\* case <-ctx.Done(): return nil
SelectCtxDone ==
    /\ ppc = "select"
    /\ pctxDone
    /\ ppc' = "done"
    /\ presult' = [kind |-> "nil", msg |-> ""]
    /\ UNCHANGED <<pctxDone, cancelPoint, connClosed, closedFired, tickReady, ticksFired,
                   readLog, sinkLog>>
    /\ UNCHANGED otherThanPoll

\* case err := <-connClosed: return fmt.Errorf("connection closed: %v", err)
SelectConnClosed ==
    /\ ppc = "select"
    /\ connClosed
    /\ connClosed' = FALSE
    /\ ppc' = "done"
    /\ presult' = [kind |-> "error", msg |-> "connection closed"]
    /\ UNCHANGED <<pctxDone, cancelPoint, closedFired, tickReady, ticksFired, readLog, sinkLog>>
    /\ UNCHANGED otherThanPoll

\* case <-t.C: the remote read of getPostCreateOutput starts
SelectTick ==
    /\ ppc = "select"
    /\ tickReady
    /\ tickReady' = FALSE
    /\ ppc' = "reading"
    /\ UNCHANGED <<pctxDone, cancelPoint, connClosed, closedFired, ticksFired, readLog,
                   sinkLog, presult>>
    /\ UNCHANGED otherThanPoll

\* what cmd.Run and json.Unmarshal can produce: the command is bound to ctx, so once
\* ctx is cancelled the run is killed ("run command"), unless it had already finished
ReadOutcomes(cancelled) ==
    IF cancelled
       THEN {[ok |-> FALSE, err |-> "run command: killed", steps |-> <<>>]}
            \cup {[ok |-> TRUE, err |-> "", steps |-> b] : b \in Batches}
       ELSE {[ok |-> FALSE, err |-> e, steps |-> <<>>] : e \in ReadErrors}
            \cup {[ok |-> TRUE, err |-> "", steps |-> b] : b \in Batches}

\* a poller that hands the sink only the records that were not in the batch before
getPostCreateOutputSinksDiff ==
    /\ ppc = "reading"
    /\ \E o \in ReadOutcomes(pctxDone) :
         /\ readLog' = Append(readLog, o)
         /\ IF o.ok
               THEN /\ sinkLog' =
                         Append(sinkLog,
                                SelectSeq(o.steps,
                                          LAMBDA st : \A k \in 1..Len(readLog) :
                                                        \A j \in 1..Len(readLog[k].steps) :
                                                            readLog[k].steps[j] # st))
                    /\ ppc' = "select"
                    /\ presult' = presult
               ELSE /\ ppc' = "done"
                    /\ presult' = [kind |-> "error", msg |-> "get post create output"]
                    /\ sinkLog' = sinkLog
    /\ UNCHANGED <<pctxDone, cancelPoint, connClosed, closedFired, tickReady, ticksFired>>
    /\ UNCHANGED otherThanPoll

\* a poller that skips a failed tick instead of aborting
getPostCreateOutputSkipsTick ==
    /\ ppc = "reading"
    /\ \E o \in ReadOutcomes(pctxDone) :
         /\ readLog' = Append(readLog, o)
         /\ sinkLog' = IF o.ok THEN Append(sinkLog, o.steps) ELSE sinkLog
         /\ ppc' = "select"
         /\ presult' = presult
    /\ UNCHANGED <<pctxDone, cancelPoint, connClosed, closedFired, tickReady, ticksFired>>
    /\ UNCHANGED otherThanPoll

\* states, err := getPostCreateOutput(...); if err != nil { return ... }; poller(states)
getPostCreateOutput ==
    /\ ppc = "reading"
    /\ \E o \in ReadOutcomes(pctxDone) :
         /\ readLog' = Append(readLog, o)
         /\ IF o.ok
               THEN /\ sinkLog' = Append(sinkLog, o.steps)
                    /\ ppc' = "select"
                    /\ presult' = presult
               ELSE /\ ppc' = "done"
                    /\ presult' = [kind |-> "error", msg |-> "get post create output"]
                    /\ sinkLog' = sinkLog
    /\ UNCHANGED <<pctxDone, cancelPoint, connClosed, closedFired, tickReady, ticksFired>>
    /\ UNCHANGED otherThanPoll

\* the ticker delivers a tick into t.C (capacity 1; a tick is dropped when one is waiting)
TickerFires ==
    /\ ppc \in {"select", "reading"}
    /\ ticksFired < MaxTicks
    /\ ticksFired' = ticksFired + 1
    /\ tickReady' = TRUE
    /\ UNCHANGED <<ppc, pctxDone, cancelPoint, connClosed, closedFired, readLog, sinkLog,
                   presult>>
    /\ UNCHANGED otherThanPoll

\* the caller cancels ctx
PollCancel ==
    /\ ~pctxDone
    /\ ppc # "done"
    /\ pctxDone' = TRUE
    /\ cancelPoint' = ppc
    /\ UNCHANGED <<ppc, connClosed, closedFired, tickReady, ticksFired, readLog, sinkLog,
                   presult>>
    /\ UNCHANGED otherThanPoll

\* the session transport terminates: the tunnel sends on connClosed
TunnelCloses ==
    /\ ppc \in {"select", "reading"}
    /\ ~closedFired
    /\ connClosed' = TRUE
    /\ closedFired' = TRUE
    /\ UNCHANGED <<ppc, pctxDone, cancelPoint, tickReady, ticksFired, readLog, sinkLog,
                   presult>>
    /\ UNCHANGED otherThanPoll

NextPoll ==
    \/ PollSetup
    \/ SelectCtxDone
    \/ SelectConnClosed
    \/ SelectTick
    \/ getPostCreateOutput
    \/ TickerFires
    \/ PollCancel
    \/ TunnelCloses

(***************************************************************************)
(* rpcClient.do: DispatchCall, then waiter.Wait                            *)
(***************************************************************************)

\* concurrent callers of do that are explored (caller 0 is startSharing)
MaxCallers == 2

Callers == 0..MaxCallers

\* result payloads the relay can put in a response
Payloads == {"r1", "r2"}

ErrClosed == "jsonrpc2: connection is closed"
ErrCanceled == "context canceled"

\* the state of a call's done channel (capacity 1): nothing, a response, or closed
Empty == [st |-> "empty"]
Closed == [st |-> "closed"]

\* what do returned: nothing yet, the decoded response, or an error
NoReturn == [kind |-> "none", id |-> 0, val |-> "", msg |-> ""]
Ok(i, v) == [kind |-> "ok", id |-> i, val |-> v, msg |-> ""]
Err(m) == [kind |-> "error", id |-> 0, val |-> "", msg |-> m]

\* what Wait makes of the done channel of a call
Outcome(d) ==
    IF d = Closed THEN Err(ErrClosed)
    ELSE IF d.err THEN Err(d.val)
    ELSE Ok(d.id, d.val)

IdleCall == [pc |-> "idle", id |-> 0, done |-> Empty, result |-> NoReturn]

RpcInit ==
    /\ closed = FALSE
    /\ seq = 1
    /\ pending = {}
    /\ calls = [c \in Callers |-> IdleCall]
    /\ rctx = {}
    /\ relayInbox = {}
    /\ respLog = <<>>

\* the caller whose call has correlation id i
CallerOf(i) == CHOOSE c \in Callers : calls[c].id = i

\* waiter, err := r.Conn.DispatchCall(ctx, method, args)
DispatchCall(c, method, params) ==
    /\ calls[c].pc = "idle"
    /\ IF closed
          THEN /\ calls' = [calls EXCEPT ![c].pc = "ret",
                                         ![c].result = Err("error on dispatch call")]
               /\ UNCHANGED <<seq, pending, relayInbox>>
          ELSE /\ calls' = [calls EXCEPT ![c].pc = "wait", ![c].id = seq]
               /\ seq' = seq + 1
               /\ pending' = pending \cup {seq}
               /\ relayInbox' = relayInbox \cup {[id |-> seq, method |-> method, params |-> params]}
    /\ UNCHANGED <<closed, rctx, respLog>>

\* a waiter that takes the outcome of whichever call has completed
WaitDoneAnyCall(c) ==
    /\ calls[c].pc = "wait"
    /\ \E d \in Callers :
         /\ calls[d].done # Empty
         /\ calls' = [calls EXCEPT
              ![c].pc = "ret",
              ![c].result = Outcome(calls[d].done)]
    /\ UNCHANGED <<closed, seq, pending, rctx, relayInbox, respLog>>

\* a do that drops the error of a closed connection
WaitDoneSwallowsClose(c) ==
    /\ calls[c].pc = "wait"
    /\ calls[c].done # Empty
    /\ calls' = [calls EXCEPT
         ![c].pc = "ret",
         ![c].result = IF calls[c].done = Closed THEN Ok(calls[c].id, "")
                                                  ELSE Outcome(calls[c].done)]
    /\ UNCHANGED <<closed, seq, pending, rctx, relayInbox, respLog>>

\* a Wait whose result is written again when a response turns up after it has returned
WaitDoneLate(c) ==
    /\ calls[c].pc \in {"wait", "ret"}
    /\ calls[c].id # 0
    /\ calls[c].done # Empty
    /\ calls' = [calls EXCEPT
         ![c].pc = "ret",
         ![c].result = Outcome(calls[c].done)]
    /\ UNCHANGED <<closed, seq, pending, rctx, relayInbox, respLog>>

\* return waiter.Wait(ctx, result): the call's done channel delivers a response or is closed
WaitDone(c) ==
    /\ calls[c].pc = "wait"
    /\ calls[c].done # Empty
    /\ calls' = [calls EXCEPT
         ![c].pc = "ret",
         ![c].result = Outcome(calls[c].done)]
    /\ UNCHANGED <<closed, seq, pending, rctx, relayInbox, respLog>>

\* a cancellation that tears the connection down
WaitCancelledClosesConn(c) ==
    /\ calls[c].pc = "wait"
    /\ c \in rctx
    /\ calls' = [d \in Callers |->
                   IF d = c THEN [calls[d] EXCEPT !.pc = "ret", !.result = Err(ErrCanceled)]
                   ELSE IF calls[d].id \in pending
                           THEN [calls[d] EXCEPT !.done = Closed]
                           ELSE calls[d]]
    /\ closed' = TRUE
    /\ pending' = {}
    /\ relayInbox' = {}
    /\ UNCHANGED <<seq, rctx, respLog>>

\* return waiter.Wait(ctx, result): ctx.Done() fires first
WaitCancelled(c) ==
    /\ calls[c].pc = "wait"
    /\ c \in rctx
    /\ calls' = [calls EXCEPT ![c].pc = "ret",
                              ![c].result = Err(ErrCanceled)]
    /\ UNCHANGED <<closed, seq, pending, rctx, relayInbox, respLog>>

\* the relay answers a request; the connection's reader hands the response to the
\* pending call with the same id, and drops it when no call is pending under that id
ReadResponse(q, isErr, val) ==
    /\ ~closed
    /\ q \in relayInbox
    /\ relayInbox' = relayInbox \ {q}
    /\ respLog' = Append(respLog, [id |-> q.id, err |-> isErr, val |-> val])
    /\ IF q.id \in pending
          THEN /\ pending' = pending \ {q.id}
               /\ calls' = [calls EXCEPT ![CallerOf(q.id)].done =
                               [st |-> "resp", id |-> q.id, err |-> isErr, val |-> val]]
          ELSE UNCHANGED <<pending, calls>>
    /\ UNCHANGED <<closed, seq, rctx>>

\* the transport closes: the connection closes the done channel of every pending call
ConnClose ==
    /\ ~closed
    /\ closed' = TRUE
    /\ calls' = [c \in Callers |->
                   IF calls[c].id \in pending THEN [calls[c] EXCEPT !.done = Closed]
                                              ELSE calls[c]]
    /\ pending' = {}
    /\ relayInbox' = {}
    /\ UNCHANGED <<seq, rctx, respLog>>

\* the caller's context is cancelled
CtxCancel(c) ==
    /\ c \notin rctx
    /\ rctx' = rctx \cup {c}
    /\ UNCHANGED <<closed, seq, pending, calls, relayInbox, respLog>>

\* the callers of SpecRpc: GetSharedServers and UpdateSharedServerPrivacy
RpcCallers == 1..MaxCallers

Methods == [c \in RpcCallers |-> IF c = 1 THEN "serverSharing.getSharedServers"
                                          ELSE "serverSharing.updateSharedServerPrivacy"]

Dispatch(c) == DispatchCall(c, Methods[c], <<>>) /\ UNCHANGED otherThanRpc
DoReturns(c) == WaitDone(c) /\ UNCHANGED otherThanRpc
DoCancelled(c) == WaitCancelled(c) /\ UNCHANGED otherThanRpc
RelayResponds(q, isErr, val) == ReadResponse(q, isErr, val) /\ UNCHANGED otherThanRpc
TransportCloses == ConnClose /\ UNCHANGED otherThanRpc
Cancel(c) == calls[c].pc # "ret" /\ CtxCancel(c) /\ UNCHANGED otherThanRpc

NextRpc ==
    \/ \E c \in RpcCallers : Dispatch(c)
    \/ \E c \in RpcCallers : DoReturns(c)
    \/ \E c \in RpcCallers : DoCancelled(c)
    \/ \E q \in relayInbox : \E val \in Payloads : RelayResponds(q, FALSE, val)
    \/ \E q \in relayInbox : RelayResponds(q, TRUE, "rpc error")
    \/ TransportCloses
    \/ \E c \in RpcCallers : Cancel(c)

(***************************************************************************)
(* Session.GetSharedServers                                                *)
(***************************************************************************)

\* records in one response of serverSharing.getSharedServers that are explored
MaxServers == 2

\* the JSON objects the relay can put in the response, by their keys
JsonPorts ==
    [sourcePort : {2222, 8080}, destinationPort : {0}, sessionName : {"sshd"},
     streamName : {"stream-name", "s"}, streamCondition : {"stream-condition", "c"},
     browseUrl : {""}, isPublic : BOOLEAN, isTCPServerConnectionEstablished : {FALSE},
     hasTLSHandshakePassed : {FALSE}, privacy : {""}]

\* the responses: JSON arrays of at most MaxServers objects
SharedServersResponses ==
    UNION {[1..n -> JsonPorts] : n \in 0..MaxServers}

\* type Port struct: each field is filled from the key its json tag names
UnmarshalPort(j) ==
    [SourcePort |-> j.sourcePort, DestinationPort |-> j.destinationPort,
     SessionName |-> j.sessionName, StreamName |-> j.streamName,
     StreamCondition |-> j.streamCondition, BrowseURL |-> j.browseUrl,
     IsPublic |-> j.isPublic,
     IsTCPServerConnectionEstablished |-> j.isTCPServerConnectionEstablished,
     HasTLSHandshakePassed |-> j.hasTLSHandshakePassed, Privacy |-> j.privacy]

\* the caller of GetSharedServers in the rpc engine
GSS == 1

\* a GetSharedServers that returns the first record only
GetSharedServersFirstOnly ==
    IF calls[GSS].result.kind = "error"
       THEN [ports |-> <<>>, err |-> calls[GSS].result.msg]
       ELSE [ports |-> [i \in 1..(IF Len(calls[GSS].result.val) > 0 THEN 1 ELSE 0) |->
                          UnmarshalPort(calls[GSS].result.val[i])],
             err |-> ""]

\* var response []*Port; if err := s.rpc.do(..., &response); err != nil { return nil, err }
\* return response, nil
GetSharedServers ==
    IF calls[GSS].result.kind = "error"
       THEN [ports |-> <<>>, err |-> calls[GSS].result.msg]
       ELSE [ports |-> [i \in 1..Len(calls[GSS].result.val) |->
                          UnmarshalPort(calls[GSS].result.val[i])],
             err |-> ""]

NextServers ==
    \/ Dispatch(GSS)
    \/ DoReturns(GSS)
    \/ DoCancelled(GSS)
    \/ \E q \in relayInbox : \E val \in SharedServersResponses : RelayResponds(q, FALSE, val)
    \/ \E q \in relayInbox : RelayResponds(q, TRUE, "rpc error")
    \/ TransportCloses
    \/ Cancel(GSS)

(***************************************************************************)
(* Session.startSharing                                                    *)
(***************************************************************************)

\* notifications the relay sends that are explored
MaxNotifs == 2

Ports == {2222, 8080}

SessionNames == {"sshd", "http"}

\* the ports startSharing is called with when its arguments are studied
ArgPorts == Ports \cup {-1, 0, 7, 65535}

Succeeded == "serverSharing.sharingSucceeded"
Failed == "serverSharing.sharingFailed"

\* PortChangeKindStart, PortChangeKindUpdate
PortChangeKindStart == "start"
PortChangeKindUpdate == "update"

\* the params of a notification: a PortUpdate, or bytes json.Unmarshal rejects
Malformed == [wellFormed |-> FALSE, Port |-> 0, ChangeKind |-> "", ErrorDetail |-> ""]

PortUpdate(p, k, e) == [wellFormed |-> TRUE, Port |-> p, ChangeKind |-> k, ErrorDetail |-> e]

\* the notifications the relay sends: outcomes for the requested port and for another
\* port, an update for the requested port, and a frame that does not parse
Notifications(p) ==
    LET q == CHOOSE o \in Ports : o # p IN
    {[method |-> Succeeded, req |-> PortUpdate(p, PortChangeKindStart, "")],
     [method |-> Succeeded, req |-> PortUpdate(q, PortChangeKindStart, "")],
     [method |-> Succeeded, req |-> PortUpdate(p, PortChangeKindUpdate, "")],
     [method |-> Failed, req |-> PortUpdate(p, PortChangeKindStart, "x")],
     [method |-> Failed, req |-> PortUpdate(p, PortChangeKindUpdate, "x")],
     [method |-> Failed, req |-> Malformed]}

\* the Port records the relay can answer serverSharing.startSharing with
PortResponses ==
    {[StreamName |-> "s", StreamCondition |-> "c"],
     [StreamName |-> "stream-name", StreamCondition |-> "stream-condition"]}

\* the characters of the decimal digits
Digit(d) == <<"0", "1", "2", "3", "4", "5", "6", "7", "8", "9">>[d + 1]

RECURSIVE DecimalDigits(_)
\* the digits %d writes for a number that is not negative
DecimalDigits(n) ==
    IF n < 10 THEN <<Digit(n)>> ELSE DecimalDigits(n \div 10) \o <<Digit(n % 10)>>

\* %d: the decimal digits, after a minus sign for a negative number
Decimal(n) == IF n < 0 THEN <<"-">> \o DecimalDigits(0 - n) ELSE DecimalDigits(n)

\* fmt.Sprintf("http://localhost:%d", port), as the prefix followed by its characters
BrowseURL(p) == <<"http://localhost:">> \o Decimal(p)

\* arguments without the browse URL
StartSharingArgsNoURL(name, p) == <<p, name>>

\* args := []interface{}{port, sessionName, fmt.Sprintf("http://localhost:%d", port)}
StartSharingArgs(name, p) == <<p, name, BrowseURL(p)>>

NoChannelID == [kind |-> "none", streamName |-> "", streamCondition |-> "", msg |-> "",
                detail |-> ""]

\* channelID{response.StreamName, response.StreamCondition}, nil
ChannelID(response) ==
    [kind |-> "id", streamName |-> response.StreamName,
     streamCondition |-> response.StreamCondition, msg |-> "", detail |-> ""]

ShareErr(m, d) ==
    [kind |-> "error", streamName |-> "", streamCondition |-> "", msg |-> m, detail |-> d]

\* the call under study: startSharing(ctx, "sshd", 2222), as in TestServerStartSharing
ShareStart ==
    /\ port = 2222
    /\ sessionName = "sshd"
    /\ spc = "init"
    /\ wpc = "none"
    /\ eventHandlers = <<>>
    /\ listeners = <<>>
    /\ deliveries = <<>>
    /\ notificationUpdate = <<>>
    /\ werrc = <<>>
    /\ errc = <<>>
    /\ arrived = {}
    /\ ssresult = NoChannelID

\* startSharing(ctx, sessionName, port) for any of the session names and ports
ShareStartAny ==
    /\ port \in ArgPorts
    /\ sessionName \in SessionNames
    /\ spc = "init"
    /\ wpc = "none"
    /\ eventHandlers = <<>>
    /\ listeners = <<>>
    /\ deliveries = <<>>
    /\ notificationUpdate = <<>>
    /\ werrc = <<>>
    /\ errc = <<>>
    /\ arrived = {}
    /\ ssresult = NoChannelID

ShareIdle ==
    /\ port = 2222
    /\ sessionName = "sshd"
    /\ spc = "init"
    /\ wpc = "none"
    /\ eventHandlers = <<>>
    /\ listeners = <<>>
    /\ deliveries = <<>>
    /\ notificationUpdate = <<>>
    /\ werrc = <<>>
    /\ errc = <<>>
    /\ arrived = {}
    /\ ssresult = NoChannelID

\* startSharing's caller id in the rpc engine
SS == 0

\* rpcHandler.registerEventHandler: under the mutex, append ch to the method's channels
registerEventHandler(eventMethod, ch) ==
    eventHandlers' =
        IF eventMethod \in DOMAIN eventHandlers
           THEN [eventHandlers EXCEPT ![eventMethod] = Append(@, ch)]
           ELSE [m \in DOMAIN eventHandlers \cup {eventMethod} |->
                   IF m = eventMethod THEN <<ch>> ELSE eventHandlers[m]]

\* s.registerRequestHandler(method, h(success)): a channel is registered for the method
\* with registerEventHandler, and a receiver hands the first frame it gets to h(success)
registerRequestHandler(method, success) ==
    /\ listeners' = Append(listeners, [method |-> method, success |-> success,
                                       st |-> "recv", req |-> Malformed])
    /\ registerEventHandler(method, Len(listeners) + 1)

\* go func() { ... s.WaitForPortNotification(ctx, port, PortChangeKindStart) ... }()
SSGo ==
    /\ spc = "init"
    /\ spc' = "call"
    /\ wpc' = "regS"
    /\ UNCHANGED <<port, sessionName, eventHandlers, listeners, deliveries,
                   notificationUpdate, werrc, errc, arrived, ssresult>>
    /\ UNCHANGED <<rpcVars, otherThanShare>>

\* s.registerRequestHandler("serverSharing.sharingSucceeded", h(true))
WRegisterSucceeded ==
    /\ wpc = "regS"
    /\ registerRequestHandler(Succeeded, TRUE)
    /\ wpc' = "regF"
    /\ UNCHANGED <<port, sessionName, spc, deliveries, notificationUpdate, werrc, errc,
                   arrived, ssresult>>
    /\ UNCHANGED <<rpcVars, otherThanShare>>

\* s.registerRequestHandler("serverSharing.sharingFailed", h(false))
WRegisterFailed ==
    /\ wpc = "regF"
    /\ registerRequestHandler(Failed, FALSE)
    /\ wpc' = "loop"
    /\ UNCHANGED <<port, sessionName, spc, deliveries, notificationUpdate, werrc, errc,
                   arrived, ssresult>>
    /\ UNCHANGED <<rpcVars, otherThanShare>>

\* WaitForPortNotification: case <-ctx.Done(): return nil, ctx.Err()
\* go func: errc <- fmt.Errorf("error while waiting for port notification: %w", err)
WCtxDone ==
    /\ wpc = "loop"
    /\ SS \in rctx
    /\ wpc' = "done"
    /\ errc' = Append(errc, ShareErr("error while waiting for port notification", ErrCanceled))
    /\ UNCHANGED <<port, sessionName, spc, eventHandlers, listeners, deliveries,
                   notificationUpdate, werrc, arrived, ssresult>>
    /\ UNCHANGED <<rpcVars, otherThanShare>>

\* WaitForPortNotification: case err := <-errc: return nil, err
\* go func: errc <- fmt.Errorf("error while waiting for port notification: %w", err)
WErr ==
    /\ wpc = "loop"
    /\ werrc # <<>>
    /\ werrc' = Tail(werrc)
    /\ wpc' = "done"
    /\ errc' = Append(errc, ShareErr("error while waiting for port notification", Head(werrc)))
    /\ UNCHANGED <<port, sessionName, spc, eventHandlers, listeners, deliveries,
                   notificationUpdate, arrived, ssresult>>
    /\ UNCHANGED <<rpcVars, otherThanShare>>

MatchesAnyPort(n, p, notifType) == n.ChangeKind = notifType

MatchesAnyKind(n, p, notifType) == n.Port = p

\* if notification.Port == port && notification.ChangeKind == notifType
Matches(n, p, notifType) == n.Port = p /\ n.ChangeKind = notifType

\* WaitForPortNotification: case notification := <-notificationUpdate
\* go func: errc <- error while starting port sharing, or errc <- nil
WNotification ==
    /\ wpc = "loop"
    /\ notificationUpdate # <<>>
    /\ notificationUpdate' = Tail(notificationUpdate)
    /\ LET n == Head(notificationUpdate) IN
         IF Matches(n, port, PortChangeKindStart)
            THEN /\ wpc' = "done"
                 /\ errc' = Append(errc,
                      IF ~n.Success
                         THEN ShareErr("error while starting port sharing", n.ErrorDetail)
                         ELSE [kind |-> "nil"])
            ELSE UNCHANGED <<wpc, errc>>
    /\ UNCHANGED <<port, sessionName, spc, eventHandlers, listeners, deliveries, werrc,
                   arrived, ssresult>>
    /\ UNCHANGED <<rpcVars, otherThanShare>>

\* h(success): unmarshal the params, set Success, send on notificationUpdate (or on errc)
Callback(ch) ==
    /\ listeners[ch].st = "cb"
    /\ IF listeners[ch].req.wellFormed
          THEN /\ Len(notificationUpdate) < 1
               /\ notificationUpdate' =
                    Append(notificationUpdate,
                           [Port |-> listeners[ch].req.Port,
                            ChangeKind |-> listeners[ch].req.ChangeKind,
                            ErrorDetail |-> listeners[ch].req.ErrorDetail,
                            Success |-> listeners[ch].success])
               /\ werrc' = werrc
          ELSE /\ Len(werrc) < 1
               /\ werrc' = Append(werrc, "error unmarshaling notification")
               /\ notificationUpdate' = notificationUpdate
    /\ listeners' = [listeners EXCEPT ![ch].st = "end", ![ch].req = Malformed]
    /\ UNCHANGED <<port, sessionName, spc, wpc, eventHandlers, deliveries, errc,
                   arrived, ssresult>>
    /\ UNCHANGED <<rpcVars, otherThanShare>>

\* rpcHandler.Handle: under the mutex, look the method up and spawn the delivery goroutine
Handle(method, req) ==
    /\ ~closed
    /\ spc # "done"
    /\ Cardinality(arrived) < MaxNotifs
    /\ \A a \in arrived : a.method # method \/ a.req # req
    /\ arrived' = arrived \cup {[method |-> method, req |-> req,
                                 after |-> (calls[SS].id # 0 /\ spc # "done"),
                                 ok |-> method \in DOMAIN eventHandlers,
                                 handlers |-> IF method \in DOMAIN eventHandlers
                                                 THEN eventHandlers[method] ELSE <<>>]}
    /\ deliveries' =
         IF method \in DOMAIN eventHandlers
            THEN Append(deliveries, [method |-> method, req |-> req,
                                     todo |-> eventHandlers[method]])
            ELSE deliveries
    /\ UNCHANGED <<port, sessionName, spc, wpc, eventHandlers, listeners,
                   notificationUpdate, werrc, errc, ssresult>>
    /\ UNCHANGED <<rpcVars, otherThanShare>>

\* ctx.Done() of the context Handle gets from the connection: rpcClient.connect is given
\* the context of the command, the one its callers pass on to startSharing
ConnCtxDone == SS \in rctx

Remove(seqn, i) == SubSeq(seqn, 1, i - 1) \o SubSeq(seqn, i + 1, Len(seqn))

\* the delivery goroutine: select { case handler <- req: case <-ctx.Done(): break }
DeliverSend(i) ==
    /\ deliveries[i].todo # <<>>
    /\ LET ch == Head(deliveries[i].todo) IN
         \/ /\ listeners[ch].st = "recv"
            /\ listeners' = [listeners EXCEPT ![ch].st = "cb", ![ch].req = deliveries[i].req]
         \/ /\ ConnCtxDone
            /\ listeners' = listeners
    /\ deliveries' = [deliveries EXCEPT ![i].todo = Tail(@)]
    /\ UNCHANGED <<port, sessionName, spc, wpc, eventHandlers, notificationUpdate, werrc,
                   errc, arrived, ssresult>>
    /\ UNCHANGED <<rpcVars, otherThanShare>>

\* the delivery goroutine: r.eventHandlers[req.Method] = []chan *jsonrpc2.Request{}
DeliverClear(i) ==
    /\ deliveries[i].todo = <<>>
    /\ eventHandlers' = [eventHandlers EXCEPT ![deliveries[i].method] = <<>>]
    /\ deliveries' = Remove(deliveries, i)
    /\ UNCHANGED <<port, sessionName, spc, wpc, listeners, notificationUpdate, werrc, errc,
                   arrived, ssresult>>
    /\ UNCHANGED <<rpcVars, otherThanShare>>

\* s.rpc.do(ctx, "serverSharing.startSharing", args, &response): DispatchCall
SSDispatch ==
    /\ spc = "call"
    /\ DispatchCall(SS, "serverSharing.startSharing", StartSharingArgs(sessionName, port))
    /\ IF calls'[SS].pc = "ret"
          THEN spc' = "done" /\ ssresult' = ShareErr(calls'[SS].result.msg, "")
          ELSE spc' = "rpc" /\ ssresult' = ssresult
    /\ UNCHANGED <<port, sessionName, wpc, eventHandlers, listeners, deliveries,
                   notificationUpdate, werrc, errc, arrived>>
    /\ UNCHANGED otherThanShare

\* s.rpc.do(...) returns what Wait got; if err != nil { return channelID{}, err }
SSDoReturns ==
    /\ spc = "rpc"
    /\ WaitDone(SS)
    /\ IF calls'[SS].result.kind = "error"
          THEN spc' = "done" /\ ssresult' = ShareErr(calls'[SS].result.msg, "")
          ELSE spc' = "select" /\ ssresult' = ssresult
    /\ UNCHANGED <<port, sessionName, wpc, eventHandlers, listeners, deliveries,
                   notificationUpdate, werrc, errc, arrived>>
    /\ UNCHANGED otherThanShare

\* s.rpc.do(...) returns ctx.Err(); return channelID{}, err
SSDoCancelled ==
    /\ spc = "rpc"
    /\ WaitCancelled(SS)
    /\ spc' = "done"
    /\ ssresult' = ShareErr(calls'[SS].result.msg, "")
    /\ UNCHANGED <<port, sessionName, wpc, eventHandlers, listeners, deliveries,
                   notificationUpdate, werrc, errc, arrived>>
    /\ UNCHANGED otherThanShare

\* a select whose ctx.Done case returns without an error
SSSelectCtxDoneSwallows ==
    /\ spc = "select"
    /\ SS \in rctx
    /\ spc' = "done"
    /\ ssresult' = ChannelID(calls[SS].result.val)
    /\ UNCHANGED <<port, sessionName, wpc, eventHandlers, listeners, deliveries,
                   notificationUpdate, werrc, errc, arrived>>
    /\ UNCHANGED <<rpcVars, otherThanShare>>

\* select { case <-ctx.Done(): return channelID{}, ctx.Err()
SSSelectCtxDone ==
    /\ spc = "select"
    /\ SS \in rctx
    /\ spc' = "done"
    /\ ssresult' = ShareErr(ErrCanceled, "")
    /\ UNCHANGED <<port, sessionName, wpc, eventHandlers, listeners, deliveries,
                   notificationUpdate, werrc, errc, arrived>>
    /\ UNCHANGED <<rpcVars, otherThanShare>>

\* case err := <-errc: if err != nil { return channelID{}, err } }
\* return channelID{response.StreamName, response.StreamCondition}, nil
SSSelectErrc ==
    /\ spc = "select"
    /\ errc # <<>>
    /\ errc' = Tail(errc)
    /\ spc' = "done"
    /\ ssresult' = IF Head(errc).kind = "error" THEN Head(errc)
                                                ELSE ChannelID(calls[SS].result.val)
    /\ UNCHANGED <<port, sessionName, wpc, eventHandlers, listeners, deliveries,
                   notificationUpdate, werrc, arrived>>
    /\ UNCHANGED <<rpcVars, otherThanShare>>

\* the relay answers serverSharing.startSharing with a Port, or with an error
SSRelayResponds(q, isErr, val) ==
    /\ ReadResponse(q, isErr, val)
    /\ UNCHANGED <<shareVars, otherThanShare>>

\* the caller of startSharing cancels ctx
SSCancel == spc # "done" /\ CtxCancel(SS) /\ UNCHANGED <<shareVars, otherThanShare>>

\* the steps of startSharing's own goroutines
ShareStep ==
    \/ SSGo
    \/ WRegisterSucceeded
    \/ WRegisterFailed
    \/ WCtxDone
    \/ WErr
    \/ WNotification
    \/ \E ch \in 1..Len(listeners) : Callback(ch)
    \/ \E i \in 1..Len(deliveries) : DeliverSend(i)
    \/ \E i \in 1..Len(deliveries) : DeliverClear(i)
    \/ SSDispatch
    \/ SSDoReturns
    \/ SSDoCancelled
    \/ SSSelectCtxDone
    \/ SSSelectErrc

NextShare ==
    \/ SSGo
    \/ WRegisterSucceeded
    \/ WRegisterFailed
    \/ WCtxDone
    \/ WErr
    \/ WNotification
    \/ \E ch \in 1..Len(listeners) : Callback(ch)
    \/ \E i \in 1..Len(deliveries) : DeliverSend(i)
    \/ \E i \in 1..Len(deliveries) : DeliverClear(i)
    \/ SSDispatch
    \/ SSDoReturns
    \/ SSDoCancelled
    \/ SSSelectCtxDone
    \/ SSSelectErrc
    \/ \E n \in Notifications(port) : Handle(n.method, n.req)
    \/ \E q \in relayInbox : \E val \in PortResponses : SSRelayResponds(q, FALSE, val)
    \/ \E q \in relayInbox : SSRelayResponds(q, TRUE, "rpc error")
    \/ SSCancel

\* startSharing with a relay that answers and sends no notification
NextArgs ==
    \/ SSGo
    \/ WRegisterSucceeded
    \/ WRegisterFailed
    \/ WCtxDone
    \/ SSDispatch
    \/ SSDoReturns
    \/ SSDoCancelled
    \/ SSSelectCtxDone
    \/ SSSelectErrc
    \/ \E q \in relayInbox : \E val \in PortResponses : SSRelayResponds(q, FALSE, val)
    \/ \E q \in relayInbox : SSRelayResponds(q, TRUE, "rpc error")
    \/ SSCancel

(***************************************************************************)
(* rpcHandler on its own: callers that register a channel and receive from *)
(* it once, and the notifications the connection hands to Handle           *)
(***************************************************************************)

\* channels registered with the handler that are explored
MaxListeners == 2

EventMethods == {Succeeded, Failed}

\* ch := r.registerEventHandler(eventMethod), after which the caller receives from ch
\* once ("recv"), or goes away without ever receiving from it ("never")
HListen(eventMethod) ==
    /\ Len(listeners) < MaxListeners
    /\ \E st \in {"recv", "never"} :
         listeners' = Append(listeners, [method |-> eventMethod, success |-> TRUE,
                                         st |-> st, req |-> Malformed])
    /\ registerEventHandler(eventMethod, Len(listeners) + 1)
    /\ UNCHANGED <<port, sessionName, spc, wpc, deliveries, notificationUpdate, werrc, errc,
                   arrived, ssresult>>
    /\ UNCHANGED <<rpcVars, otherThanShare>>

\* the steps of the delivery goroutines Handle has spawned
HandlerStep ==
    \/ \E i \in 1..Len(deliveries) : DeliverSend(i)
    \/ \E i \in 1..Len(deliveries) : DeliverClear(i)

NextHandler ==
    \/ \E m \in EventMethods : HListen(m)
    \/ \E n \in Notifications(port) : Handle(n.method, n.req)
    \/ \E i \in 1..Len(deliveries) : DeliverSend(i)
    \/ \E i \in 1..Len(deliveries) : DeliverClear(i)
    \/ SSCancel

(***************************************************************************)
(* rpcHandler step by step: Lock, the access to the map, Unlock, and the   *)
(* goroutine's write to the map                                            *)
(***************************************************************************)

Unlocked == [by |-> "none", method |-> "", req |-> Malformed, at |-> "none"]

NoWrite == [by |-> "none", locked |-> TRUE, raced |-> FALSE]

LockIdle == mutex = Unlocked /\ lastWrite = NoWrite /\ fatal = FALSE

\* the frames the connection hands to Handle
Frames == {n \in Notifications(port) : n.req.wellFormed /\ n.req.Port = port}

\* registerEventHandler: r.mutex.Lock()
RegisterLock(eventMethod) ==
    /\ ~fatal
    /\ mutex = Unlocked
    /\ Len(listeners) < MaxListeners
    /\ mutex' = [by |-> "registerEventHandler", method |-> eventMethod, req |-> Malformed,
                 at |-> "locked"]
    /\ UNCHANGED <<lastWrite, fatal, shareVars, otherThanRegistry>>

\* registerEventHandler: ch := make(chan); r.eventHandlers[eventMethod] = ... ch
RegisterWrite ==
    /\ ~fatal
    /\ mutex.by = "registerEventHandler" /\ mutex.at = "locked"
    /\ \E st \in {"recv", "never"} :
         listeners' = Append(listeners, [method |-> mutex.method, success |-> TRUE,
                                         st |-> st, req |-> Malformed])
    /\ registerEventHandler(mutex.method, Len(listeners) + 1)
    /\ mutex' = [mutex EXCEPT !.at = "done"]
    /\ lastWrite' = [by |-> "registerEventHandler", locked |-> TRUE, raced |-> FALSE]
    /\ UNCHANGED <<port, sessionName, spc, wpc, deliveries, notificationUpdate, werrc, errc,
                   arrived, ssresult>>
    /\ UNCHANGED <<fatal, otherThanRegistry>>

\* registerEventHandler: the deferred r.mutex.Unlock(), return ch
RegisterUnlock ==
    /\ ~fatal
    /\ mutex.by = "registerEventHandler" /\ mutex.at = "done"
    /\ mutex' = Unlocked
    /\ UNCHANGED <<lastWrite, fatal, shareVars, otherThanRegistry>>

\* Handle: r.mutex.Lock()
HandleLock(method, req) ==
    /\ ~fatal
    /\ mutex = Unlocked
    /\ Cardinality(arrived) < MaxNotifs
    /\ \A a \in arrived : a.method # method \/ a.req # req
    /\ mutex' = [by |-> "Handle", method |-> method, req |-> req, at |-> "locked"]
    /\ UNCHANGED <<lastWrite, fatal, shareVars, otherThanRegistry>>

\* the listeners of the method as Handle finds them
Found(method) == IF method \in DOMAIN eventHandlers THEN eventHandlers[method] ELSE <<>>

\* a Handle that sends to the listeners itself, before it returns
HandleReadDelivers ==
    /\ ~fatal
    /\ mutex.by = "Handle" /\ mutex.at = "locked"
    /\ \A k \in 1..Len(Found(mutex.method)) : listeners[Found(mutex.method)[k]].st = "recv"
    /\ arrived' = arrived \cup {[method |-> mutex.method, req |-> mutex.req, after |-> FALSE,
                                 ok |-> mutex.method \in DOMAIN eventHandlers,
                                 handlers |-> Found(mutex.method)]}
    /\ deliveries' =
         IF mutex.method \in DOMAIN eventHandlers
            THEN Append(deliveries, [method |-> mutex.method, req |-> mutex.req,
                                     todo |-> Found(mutex.method)])
            ELSE deliveries
    /\ mutex' = [mutex EXCEPT !.at = "done"]
    /\ UNCHANGED <<port, sessionName, spc, wpc, eventHandlers, listeners,
                   notificationUpdate, werrc, errc, ssresult>>
    /\ UNCHANGED <<lastWrite, fatal, otherThanRegistry>>

\* Handle: if handlers, ok := r.eventHandlers[req.Method]; ok { go func() {...}() }
HandleRead ==
    /\ ~fatal
    /\ mutex.by = "Handle" /\ mutex.at = "locked"
    /\ arrived' = arrived \cup {[method |-> mutex.method, req |-> mutex.req, after |-> FALSE,
                                 ok |-> mutex.method \in DOMAIN eventHandlers,
                                 handlers |-> Found(mutex.method)]}
    /\ deliveries' =
         IF mutex.method \in DOMAIN eventHandlers
            THEN Append(deliveries, [method |-> mutex.method, req |-> mutex.req,
                                     todo |-> Found(mutex.method)])
            ELSE deliveries
    /\ mutex' = [mutex EXCEPT !.at = "done"]
    /\ UNCHANGED <<port, sessionName, spc, wpc, eventHandlers, listeners,
                   notificationUpdate, werrc, errc, ssresult>>
    /\ UNCHANGED <<lastWrite, fatal, otherThanRegistry>>

\* Handle: the deferred r.mutex.Unlock()
HandleUnlock ==
    /\ ~fatal
    /\ mutex.by = "Handle" /\ mutex.at = "done"
    /\ mutex' = Unlocked
    /\ UNCHANGED <<lastWrite, fatal, shareVars, otherThanRegistry>>

\* the goroutine's select { case handler <- req: case <-ctx.Done(): break }
GoSend(i) == ~fatal /\ DeliverSend(i)

\* the goroutine's r.eventHandlers[req.Method] = []chan *jsonrpc2.Request{}: it takes no
\* lock. While another call is inside its Lock/Unlock section the two accesses to the map
\* are unordered: the write lands, or is lost, or the runtime stops the program
GoClear(i) ==
    /\ ~fatal
    /\ deliveries[i].todo = <<>>
    /\ deliveries' = Remove(deliveries, i)
    /\ lastWrite' = [by |-> "Handle goroutine", locked |-> FALSE, raced |-> mutex # Unlocked]
    /\ \/ /\ eventHandlers' = [eventHandlers EXCEPT ![deliveries[i].method] = <<>>]
          /\ fatal' = fatal
       \/ /\ mutex # Unlocked
          /\ eventHandlers' = eventHandlers
          /\ fatal' \in BOOLEAN
    /\ mutex' = mutex
    /\ UNCHANGED <<port, sessionName, spc, wpc, listeners, notificationUpdate, werrc, errc,
                   arrived, ssresult>>
    /\ UNCHANGED otherThanRegistry

\* the context the connection was made with is cancelled
RegistryCancel == ~fatal /\ SSCancel

\* the steps left to the call that holds the mutex
HolderStep == RegisterWrite \/ RegisterUnlock \/ HandleRead \/ HandleUnlock

NextRegistry ==
    \/ \E m \in EventMethods : RegisterLock(m)
    \/ RegisterWrite
    \/ RegisterUnlock
    \/ \E n \in Frames : HandleLock(n.method, n.req)
    \/ HandleRead
    \/ HandleUnlock
    \/ \E i \in 1..Len(deliveries) : GoSend(i)
    \/ \E i \in 1..Len(deliveries) : GoClear(i)
    \/ RegistryCancel

(***************************************************************************)
(* PullRequestList: one GraphQL request per page                           *)
(***************************************************************************)

\* the largest limit explored
MaxLimit == 102

\* pageLimit := min(limit, 100)
PageMax == 100

NoList == [kind |-> "none", prs |-> <<>>]

ListIdle ==
    /\ limit = 1
    /\ total = 0
    /\ prs = <<>>
    /\ pageLimit = 1
    /\ endCursor = 0
    /\ requests = <<>>
    /\ pages = <<>>
    /\ plpc = "idle"
    /\ plresult = NoList

minFirst(a, b) == a

\* func min(a, b int) int
min(a, b) == IF a < b THEN a ELSE b

\* prs := []PullRequest{}; pageLimit := min(limit, 100), for a limit >= 1 and a server
\* that holds any number of pull requests
ListStart ==
    /\ limit \in 1..MaxLimit
    /\ total \in 0..(MaxLimit + 1)
    /\ prs = <<>>
    /\ pageLimit = min(limit, PageMax)
    /\ endCursor = 0
    /\ requests = <<>>
    /\ pages = <<>>
    /\ plpc = "loop"
    /\ plresult = NoList

\* the ranks from a to b, in order
Ranks(a, b) == [i \in 1..(b - a + 1) |-> a + i - 1]

\* variables["limit"] = pageLimit; client.GraphQL(query, variables, &data)
ListRequest ==
    /\ plpc = "loop"
    /\ requests' = Append(requests, [first |-> pageLimit, after |-> endCursor,
                                     collected |-> Len(prs)])
    /\ plpc' = "await"
    /\ UNCHANGED <<limit, total, prs, pageLimit, endCursor, pages, plresult>>
    /\ UNCHANGED otherThanList

\* if err != nil { return nil, err }
ListError ==
    /\ plpc = "await"
    /\ plpc' = "done"
    /\ plresult' = [kind |-> "error", prs |-> <<>>]
    /\ UNCHANGED <<limit, total, prs, pageLimit, endCursor, requests, pages>>
    /\ UNCHANGED otherThanList

\* the server's page: the next pull requests after the cursor, as many as asked for or
\* one fewer, and whether more follow. Then the for loop over the edges with its
\* goto done, and the hasNextPage branch
ListPage ==
    /\ plpc = "await"
    /\ LET asked == requests[Len(requests)].first
           full == min(asked, total - endCursor)
       IN \E n \in {full, IF full > 1 THEN full - 1 ELSE full} :
            LET page == Ranks(endCursor + 1, endCursor + n)
                hasNextPage == endCursor + n < total
                all == prs \o page
            IN /\ pages' = Append(pages, [size |-> n, hasNextPage |-> hasNextPage])
               /\ IF Len(all) >= limit
                     THEN /\ prs' = SubSeq(all, 1, limit)
                          /\ plpc' = "done"
                          /\ plresult' = [kind |-> "ok", prs |-> prs']
                          /\ UNCHANGED <<endCursor, pageLimit>>
                     ELSE /\ prs' = all
                          /\ IF hasNextPage
                                THEN /\ endCursor' = endCursor + n
                                     /\ pageLimit' = min(pageLimit, limit - Len(all))
                                     /\ plpc' = "loop"
                                     /\ plresult' = plresult
                                ELSE /\ plpc' = "done"
                                     /\ plresult' = [kind |-> "ok", prs |-> all]
                                     /\ UNCHANGED <<endCursor, pageLimit>>
    /\ UNCHANGED <<limit, total, requests>>
    /\ UNCHANGED otherThanList

NextList == ListRequest \/ ListError \/ ListPage

(***************************************************************************)
(* NewClient, Client.Join, NewServer                                       *)
(***************************************************************************)

\* the connections a Client is made with: none (NewClient()), or a valid descriptor
ClientDescs ==
    {NoDesc} \cup
    [SessionID : {"id", "session-id"}, SessionToken : {"token", "expired", "session-token"},
     RelayEndpoint : {"endpoint"}, RelaySAS : {"sas", "relay-sas"}]

NoServer == [kind |-> "none", session |-> 0]

\* NewClient(opts...): a client that has not joined (session number 0)
NewClient(desc) == [desc |-> desc, session |-> 0]

ServerIdle ==
    /\ client = NewClient(NoDesc)
    /\ clientRelay = NoRelay
    /\ clientJoin = NoResult
    /\ nsresult = NoServer

ServerStart ==
    /\ client \in {NewClient(d) : d \in ClientDescs}
    /\ clientRelay = NoRelay
    /\ clientJoin = NoResult
    /\ nsresult = NoServer

\* a NewServer that does not look at the client
NewServerUnchecked(c) == [kind |-> "server", session |-> c.session]

\* NewServer(client): a server is a view of the client's joined session; a client
\* without one is refused
NewServer(c) ==
    IF c.session = 0 THEN [kind |-> "error", session |-> 0]
                     ELSE [kind |-> "server", session |-> c.session]

\* client.Join(ctx): on success the client holds the session number the relay returned
ClientJoin ==
    /\ clientJoin = NoResult
    /\ client.desc # NoDesc
    /\ \E relay \in JoinRelays :
         /\ clientRelay' = relay
         /\ clientJoin' = Join(client.desc, relay)
         /\ client' = IF clientJoin'.kind = "session" THEN [client EXCEPT !.session = 1]
                                                       ELSE client
    /\ nsresult' = nsresult
    /\ UNCHANGED otherThanServer

\* server, err := NewServer(client)
CallNewServer ==
    /\ nsresult = NoServer
    /\ nsresult' = NewServer(client)
    /\ UNCHANGED <<client, clientRelay, clientJoin>>
    /\ UNCHANGED otherThanServer

NextNewServer ==
    \/ ClientJoin
    \/ CallNewServer

(***************************************************************************)
(* Specifications                                                          *)
(***************************************************************************)

vars == <<connVars, pollVars, rpcVars, shareVars, serverVars, lockVars, listVars>>

InitConnect == ConnectStart /\ PollInit /\ RpcInit /\ ShareIdle /\ ServerIdle /\ LockIdle /\ ListIdle

InitPoll == ConnectIdle /\ PollInit /\ RpcInit /\ ShareIdle /\ ServerIdle /\ LockIdle /\ ListIdle

InitRpc == ConnectIdle /\ PollInit /\ RpcInit /\ ShareIdle /\ ServerIdle /\ LockIdle /\ ListIdle

InitShare == ConnectIdle /\ PollInit /\ RpcInit /\ ShareStart /\ ServerIdle /\ LockIdle /\ ListIdle

InitHandler == ConnectIdle /\ PollInit /\ RpcInit /\ ShareIdle /\ ServerIdle /\ LockIdle /\ ListIdle

InitServers == ConnectIdle /\ PollInit /\ RpcInit /\ ShareIdle /\ ServerIdle /\ LockIdle /\ ListIdle

InitArgs == ConnectIdle /\ PollInit /\ RpcInit /\ ShareStartAny /\ ServerIdle /\ LockIdle /\ ListIdle

InitNewServer == ConnectIdle /\ PollInit /\ RpcInit /\ ShareIdle /\ ServerStart /\ LockIdle /\ ListIdle

SpecConnect == InitConnect /\ [][NextConnect]_vars

SpecPoll == InitPoll /\ [][NextPoll]_vars

SpecRpc == InitRpc /\ [][NextRpc]_vars

SpecShare == InitShare /\ [][NextShare]_vars

SpecHandler == InitHandler /\ [][NextHandler]_vars

SpecServers == InitServers /\ [][NextServers]_vars

SpecArgs == InitArgs /\ [][NextArgs]_vars

SpecNewServer == InitNewServer /\ [][NextNewServer]_vars

InitRegistry == ConnectIdle /\ PollInit /\ RpcInit /\ ShareIdle /\ ServerIdle /\ LockIdle /\ ListIdle

SpecRegistry == InitRegistry /\ [][NextRegistry]_vars

InitList == ConnectIdle /\ PollInit /\ RpcInit /\ ShareIdle /\ ServerIdle /\ LockIdle /\ ListStart

SpecList == InitList /\ [][NextList]_vars

(***************************************************************************)
(* Properties of ConnectToLiveshare                                        *)
(***************************************************************************)

Polls == Count(clog, "pollReady") + Count(clog, "pollUnready") + Count(clog, "pollError")

TimedOut ==
    cresult = [kind |-> "error", msg |-> "timed out while waiting for the Codespace to start"]

\* the readiness predicate, spelled out
Ready4(c) ==
    c.SessionID # "" /\ c.SessionToken # "" /\ c.RelayEndpoint # "" /\ c.RelaySAS # ""
    /\ c.State = "Available"

\* C6: ConnectToLiveshare returns the timeout error exactly when 30 polls have each
\* returned an unready record: never after fewer, and a 31st poll is never issued.
C6_TimeoutAfterExactly30 ==
    /\ Polls <= 30
    /\ TimedOut => (Count(clog, "pollUnready") = 30 /\ Polls = 30)
    /\ (cpc = "done" /\ Count(clog, "pollUnready") = 30) => TimedOut

C6_Witness == TimedOut /\ Count(clog, "pollUnready") = 30

\* C7: when the record ConnectToLiveshare is given is already ready, it goes straight
\* to join: no start-workspace request, no re-fetch and no sleep is ever issued.
C7_ReadyGoesStraightToJoin ==
    Ready4(given) =>
        /\ clog \in {<<>>, <<"join">>}
        /\ cpc \in {"start", "loop", "connect", "done"}
        /\ retries = 0

C7_Witness == Ready4(given) /\ clog = <<"join">> /\ cresult.kind = "session"

\* C8: join is attempted only when the readiness predicate holds on the most recently
\* obtained record, and the descriptor handed to join is that record's four fields.
C8_JoinOnlyWhenReady ==
    /\ cpc = "connect" => Ready4(codespace)
    /\ Count(clog, "join") > 0 =>
         /\ Ready4(codespace)
         /\ Len(clog) > 1 => clog[Len(clog) - 1] \in {"pollReady", "start"}
         /\ joinDesc.SessionID = codespace.SessionID
         /\ joinDesc.SessionToken = codespace.SessionToken
         /\ joinDesc.RelayEndpoint = codespace.RelayEndpoint
         /\ joinDesc.RelaySAS = codespace.RelaySAS
         /\ DOMAIN joinDesc = {"SessionID", "SessionToken", "RelayEndpoint", "RelaySAS"}

C8_Witness == Count(clog, "join") > 0 /\ Count(clog, "pollUnready") > 0 /\ codespace # given

(***************************************************************************)
(* Properties of PollPostCreateStates                                      *)
(***************************************************************************)

FailedReads == {i \in 1..Len(readLog) : ~readLog[i].ok}

C10_FailureAbortsWatch ==
    /\ \A i \in FailedReads :
         /\ i = Len(readLog)
         /\ ppc = "done"
         /\ presult = [kind |-> "error", msg |-> "get post create output"]
    /\ Len(sinkLog) = Len(readLog) - Cardinality(FailedReads)
    /\ presult.msg = "connection closed" => (closedFired /\ presult.kind = "error")
    /\ (ppc = "done" /\ closedFired /\ ~pctxDone) => presult.kind = "error"

C10_Witness == FailedReads # {} /\ Len(sinkLog) > 0 /\ tickReady

(***************************************************************************)
(* Properties of rpcClient.do                                              *)
(***************************************************************************)

\* the relay returned the response <<i, v>> without error
Responded(i, v) == \E k \in 1..Len(respLog) : respLog[k] = [id |-> i, err |-> FALSE, val |-> v]

\* C3: calls dispatched concurrently on one connection each complete successfully once
\* their responses have been returned, in whichever order the responses arrive, and
\* each caller receives the response that carries its own correlation id.
C3_OrderIndependentCorrelation ==
    \A c \in RpcCallers :
        /\ calls[c].result.kind = "ok" =>
             /\ calls[c].result.id = calls[c].id
             /\ Responded(calls[c].id, calls[c].result.val)
        /\ (calls[c].pc = "ret" /\ calls[c].done.st = "resp" /\ c \notin rctx) =>
             calls[c].result = Outcome(calls[c].done)

C3_Witness ==
    /\ \A c \in RpcCallers : calls[c].result.kind = "ok"
    /\ Len(respLog) >= 2
    /\ respLog[1].id > respLog[2].id
    /\ respLog[1].val # respLog[2].val

\* a caller leaves Wait while nothing has arrived on its call's done channel
ReleasedEmpty(c) ==
    calls[c].pc = "wait" /\ calls'[c].pc = "ret" /\ calls[c].done = Empty

\* C4: cancelling the context of a pending call before its response arrives releases
\* that caller with a cancellation error, leaves the transport open and the other
\* pending calls untouched, and every other call still completes with its own response.
C4_CancelReleasesOnlyItsCaller ==
    /\ [][\A c \in RpcCallers :
            ReleasedEmpty(c) =>
                /\ c \in rctx
                /\ calls'[c].result = Err("context canceled")
                /\ closed' = closed
                /\ pending' = pending
                /\ relayInbox' = relayInbox
                /\ \A d \in RpcCallers \ {c} : calls'[d] = calls[d]]_vars
    /\ [][\A c \in RpcCallers :
            (c \notin rctx /\ c \in rctx') =>
                (closed' = closed /\ pending' = pending /\ calls' = calls)]_vars
    /\ [](\A d \in RpcCallers :
            (rctx # {} /\ d \notin rctx /\ calls[d].pc = "ret" /\ calls[d].done.st = "resp"
             /\ ~calls[d].done.err)
                => (calls[d].result.kind = "ok" /\ calls[d].result.id = calls[d].id
                    /\ Responded(calls[d].id, calls[d].result.val)))

C4_Witness ==
    /\ ~closed
    /\ calls[1].result = Err("context canceled")
    /\ calls[1].done = Empty
    /\ calls[2].result.kind = "ok"
    /\ respLog # <<>>
    /\ respLog[Len(respLog)].id = calls[2].id

\* C5: when the transport closes while calls are pending, the done channel of every
\* pending call is closed, so no caller stays blocked and each such call (its context
\* not cancelled) returns the connection-closed error; the connection never reopens
\* and sends nothing afterwards.
C5_CloseFailsPendingCalls ==
    /\ [][(~closed /\ closed') =>
            \A c \in RpcCallers : calls[c].id \in pending => calls'[c].done = Closed]_vars
    /\ [](closed =>
            /\ pending = {}
            /\ \A c \in RpcCallers : calls[c].pc = "wait" => calls[c].done # Empty)
    /\ [](\A c \in RpcCallers :
            (calls[c].pc = "ret" /\ calls[c].done = Closed /\ c \notin rctx)
                => calls[c].result = Err("jsonrpc2: connection is closed"))
    /\ [][closed => (closed' /\ seq' = seq /\ relayInbox' = {})]_vars

C5_Witness ==
    /\ closed
    /\ \A c \in RpcCallers :
         calls[c].done = Closed /\ calls[c].result = Err("jsonrpc2: connection is closed")

\* the ways a dispatched call ends
ByResponse(c) ==
    /\ calls[c].result.kind = "ok"
    /\ calls[c].done.st = "resp" /\ ~calls[c].done.err
    /\ calls[c].result = Ok(calls[c].id, calls[c].done.val)

ByError(c) ==
    /\ calls[c].result.kind = "error"
    /\ \/ calls[c].done = Closed /\ calls[c].result.msg = ErrClosed
       \/ calls[c].done.st = "resp" /\ calls[c].done.err
          /\ calls[c].result.msg = calls[c].done.val

ByCancellation(c) == calls[c].result = Err(ErrCanceled) /\ c \in rctx

\* C26: every dispatched call is terminated by exactly one of the response delivered, an
\* error delivered, or the cancellation of its context; a response that arrives after the
\* call was cancelled is discarded and never reaches the caller's result.
C26_CallEndsExactlyOnce ==
    /\ [](\A c \in RpcCallers :
            (calls[c].pc = "ret" /\ calls[c].id # 0) =>
                /\ ByResponse(c) \/ ByError(c) \/ ByCancellation(c)
                /\ ~(ByResponse(c) /\ ByError(c))
                /\ ~(ByResponse(c) /\ ByCancellation(c))
                /\ ~(ByError(c) /\ ByCancellation(c)))
    /\ [][\A c \in RpcCallers :
            calls[c].pc = "ret" =>
                (calls'[c].pc = "ret" /\ calls'[c].result = calls[c].result)]_vars

\* a call returned the cancellation error, its response came in afterwards and went
\* nowhere, and the other call completed with its own response
C26_Witness ==
    \E c \in RpcCallers : \E d \in RpcCallers \ {c} :
        /\ calls[c].result = Err(ErrCanceled)
        /\ calls[c].done.st = "resp" /\ ~calls[c].done.err
        /\ respLog[Len(respLog)].id = calls[c].id
        /\ calls[d].result.kind = "ok"

(***************************************************************************)
(* Properties of Session.startSharing                                      *)
(***************************************************************************)

\* a notification with these contents has been handled
Arrived(method, req) == \E a \in arrived : a.method = method /\ a.req = req

FailureArrived ==
    \E a \in arrived :
        /\ a.method = "serverSharing.sharingFailed"
        /\ a.req = [wellFormed |-> TRUE, Port |-> port, ChangeKind |-> "start",
                    ErrorDetail |-> "x"]
        /\ a.after

\* C2: if a failure notification for the requested port with error detail "x" arrives
\* while startSharing is in progress (and is the only notification, the call itself
\* succeeds and ctx is not cancelled), startSharing fails with a message containing
\* "x": it is never left with no step to take short of that result.
C2_FailureNotificationFails ==
    (/\ FailureArrived
     /\ Cardinality(arrived) = 1
     /\ calls[0].done.st = "resp"
     /\ ~calls[0].done.err
     /\ 0 \notin rctx
     /\ ~ENABLED ShareStep)
        => (ssresult.kind = "error" /\ ssresult.detail = "x")

\* a sharingSucceeded notification for the requested port, kind start, was handled after
\* the request was sent and before startSharing returned
SuccessArrived ==
    \E a \in arrived :
        /\ a.method = Succeeded
        /\ a.req = PortUpdate(port, PortChangeKindStart, "")
        /\ a.after

\* C27: the handlers for sharingSucceeded and sharingFailed are in place before the relay
\* can emit the outcome notification: a success notification sent after the relay got
\* the request (the only notification, the call answered, ctx not cancelled) finds the
\* waiter's listener registered, and startSharing is never left with no step to take
\* short of returning the channel identifier.
C27_HandlersInPlaceBeforeNotification ==
    (/\ SuccessArrived
     /\ Cardinality(arrived) = 1
     /\ calls[SS].done.st = "resp"
     /\ ~calls[SS].done.err
     /\ ~ConnCtxDone)
        => /\ \A a \in arrived : a.ok /\ a.handlers # <<>>
           /\ ~ENABLED ShareStep => ssresult = ChannelID(calls[SS].done.val)

\* a notification of the method for the requested port and kind start was handled and
\* found a listener
StartArrived(method) ==
    \E a \in arrived :
        /\ a.method = method
        /\ a.req.wellFormed
        /\ a.req.Port = port
        /\ a.req.ChangeKind = PortChangeKindStart
        /\ a.handlers # <<>>

\* what the waiter goroutine makes of the notification WaitForPortNotification returned
FromNotification(e) ==
    e.kind = "nil" \/ (e.kind = "error" /\ e.msg = "error while starting port sharing")

\* C28: WaitForPortNotification returns a notification only if its port is the requested
\* port and its changeKind the requested kind, so startSharing is neither completed nor
\* failed by a notification for the requested port whose changeKind is "update".
C28_OnlyStartNotificationsCount ==
    /\ \A k \in 1..Len(errc) :
          FromNotification(errc[k]) =>
              StartArrived(IF errc[k].kind = "nil" THEN Succeeded ELSE Failed)
    /\ ssresult.kind = "id" => StartArrived(Succeeded)
    /\ (ssresult.kind = "error" /\ ssresult.msg = "error while starting port sharing") =>
          StartArrived(Failed)

\* an update notification for the requested port was delivered to the waiter's listener
UpdateDelivered(method) ==
    \E a \in arrived :
        /\ a.method = method
        /\ a.req.wellFormed
        /\ a.req.Port = port
        /\ a.req.ChangeKind = PortChangeKindUpdate
        /\ a.handlers # <<>>

C28_Witness == ssresult.kind = "id" /\ UpdateDelivered(Failed) /\ listeners[2].st = "end"

(***************************************************************************)
(* Properties of rpcHandler                                                *)
(***************************************************************************)

\* C11: when a notification for a method is handled, every listener registered for
\* the method at that moment is sent the notification (and the method's set is then
\* emptied): with the context not cancelled, once the delivery goroutines can take no
\* further step, none of them is left holding a listener it has not sent the frame to
\* (every listener here is one that receives from its channel).
C11_EveryRegisteredListenerIsSent ==
    (/\ ~ConnCtxDone
     /\ \A ch \in 1..Len(listeners) : listeners[ch].st # "never"
     /\ ~ENABLED HandlerStep) =>
        \A i \in 1..Len(deliveries) : deliveries[i].todo = <<>>

(***************************************************************************)
(* Properties of Session.WaitForPortNotification                           *)
(***************************************************************************)

\* a sharingSucceeded notification for another port was handled while the waiter's
\* listener was registered, and the one for the requested port was handled later,
\* after the delivery of the first had finished
UnrelatedThenRequested ==
    /\ Cardinality(arrived) = 2
    /\ \E a \in arrived :
         /\ a.method = Succeeded
         /\ a.req.wellFormed /\ a.req.Port # port /\ a.req.ChangeKind = PortChangeKindStart
         /\ a.ok /\ a.handlers # <<>>
    /\ \E b \in arrived :
         /\ b.method = Succeeded
         /\ b.req = PortUpdate(port, PortChangeKindStart, "")
         /\ b.ok /\ b.handlers = <<>>

\* C12: a notification for an unrelated port that arrives during the wait is discarded
\* and does not end the wait, and the wait still completes when a later notification
\* for the requested port arrives: with ctx not cancelled, the waiter is never left
\* with no step to take before WaitForPortNotification has returned.
C12_UnrelatedPortDoesNotEndWait ==
    (UnrelatedThenRequested /\ SS \notin rctx /\ ~ENABLED ShareStep) => wpc = "done"

(***************************************************************************)
(* Cancellation of startSharing                                            *)
(***************************************************************************)

\* nothing but the cancellation can have ended the call: no notification the waiter
\* acts on (one for the requested port with kind start, or one that does not parse)
\* has been handled, and the relay has not answered with an error
OnlyCancellation ==
    /\ SS \in rctx
    /\ \A a \in arrived :
         a.req.wellFormed /\ ~Matches(a.req, port, PortChangeKindStart)
    /\ \A k \in 1..Len(respLog) : ~respLog[k].err

\* the error is ctx.Err(), returned as it is or wrapped with %w by the waiter goroutine
IsCancellationError(r) ==
    r.kind = "error" /\ (r.msg = ErrCanceled \/ r.detail = ErrCanceled)

\* C13: if ctx is cancelled while startSharing is waiting, startSharing returns the
\* context's cancellation error, and the only request the relay was ever sent is the
\* serverSharing.startSharing request itself: nothing is sent to undo it.
C13_CancelReturnsCtxErrAndSendsNothing ==
    (spc = "done" /\ OnlyCancellation) =>
        /\ IsCancellationError(ssresult)
        /\ seq <= 2
        /\ \A q \in relayInbox : q.method = "serverSharing.startSharing"

C13_Witness ==
    /\ spc = "done"
    /\ OnlyCancellation
    /\ calls[SS].result.kind = "ok"
    /\ ssresult.msg = ErrCanceled
    /\ seq = 2
    /\ arrived # {}

(***************************************************************************)
(* The sink of PollPostCreateStates                                        *)
(***************************************************************************)

\* the reads that succeeded, in tick order
GoodReads == SelectSeq(readLog, LAMBDA o : o.ok)

\* C14: on every tick whose remote read and parse succeed, the sink is invoked exactly
\* once with the complete batch parsed on that tick, and the invocations are in tick
\* order: the sink's log is the sequence of the batches of the successful reads.
C14_SinkGetsEveryWholeBatchInOrder ==
    /\ Len(sinkLog) = Len(GoodReads)
    /\ \A k \in 1..Len(sinkLog) : sinkLog[k] = GoodReads[k].steps

C14_Witness ==
    /\ Len(sinkLog) = 3
    /\ sinkLog[1] = sinkLog[2]
    /\ Len(sinkLog[2]) = 1
    /\ Len(sinkLog[3]) = 2

(***************************************************************************)
(* Properties of Session.GetSharedServers                                  *)
(***************************************************************************)

\* the relay answered GetSharedServers' request with the array v
ServersAnswered(v) ==
    \E k \in 1..Len(respLog) :
        respLog[k].id = calls[GSS].id /\ ~respLog[k].err /\ respLog[k].val = v

\* C15: GetSharedServers returns exactly the Port records of the relay's response, in
\* the same order and with every field unchanged; if the RPC call fails it returns
\* that error and no records.
C15_SharedServersVerbatim ==
    calls[GSS].pc = "ret" =>
        IF calls[GSS].result.kind = "error"
           THEN GetSharedServers.ports = <<>> /\ GetSharedServers.err = calls[GSS].result.msg
           ELSE /\ GetSharedServers.err = ""
                /\ \E v \in SharedServersResponses :
                     /\ ServersAnswered(v)
                     /\ Len(GetSharedServers.ports) = Len(v)
                     /\ \A i \in 1..Len(v) :
                          LET got == GetSharedServers.ports[i] IN
                            /\ got.SourcePort = v[i].sourcePort
                            /\ got.DestinationPort = v[i].destinationPort
                            /\ got.SessionName = v[i].sessionName
                            /\ got.StreamName = v[i].streamName
                            /\ got.StreamCondition = v[i].streamCondition
                            /\ got.BrowseURL = v[i].browseUrl
                            /\ got.IsPublic = v[i].isPublic
                            /\ got.IsTCPServerConnectionEstablished =
                                 v[i].isTCPServerConnectionEstablished
                            /\ got.HasTLSHandshakePassed = v[i].hasTLSHandshakePassed
                            /\ got.Privacy = v[i].privacy

C15_Witness ==
    /\ calls[GSS].pc = "ret"
    /\ calls[GSS].result.kind = "ok"
    /\ Len(GetSharedServers.ports) = 2
    /\ GetSharedServers.ports[1].SourcePort = 2222
    /\ GetSharedServers.ports[1].StreamName = "stream-name"
    /\ GetSharedServers.ports[1].StreamCondition = "stream-condition"
    /\ GetSharedServers.ports[2].SourcePort = 8080

(***************************************************************************)
(* The request of startSharing                                             *)
(***************************************************************************)

\* the number a digit character stands for
DigitValue(c) == CHOOSE d \in 0..9 : Digit(d) = c

RECURSIVE ParseDigits(_)
\* the number a non-empty sequence of digit characters reads as
ParseDigits(ds) ==
    IF Len(ds) = 1 THEN DigitValue(ds[1])
    ELSE 10 * ParseDigits(SubSeq(ds, 1, Len(ds) - 1)) + DigitValue(ds[Len(ds)])

\* url is "http://localhost:" followed by the decimal numeral of p, without leading zeros
IsBrowseURLOf(url, p) ==
    /\ Len(url) >= 2
    /\ url[1] = "http://localhost:"
    /\ LET num == Tail(url)
           ds == IF num[1] = "-" THEN Tail(num) ELSE num IN
         /\ Len(ds) >= 1
         /\ \A k \in 1..Len(ds) : \E d \in 0..9 : ds[k] = Digit(d)
         /\ Len(ds) > 1 => ds[1] # "0"
         /\ (IF num[1] = "-" THEN 0 - ParseDigits(ds) ELSE ParseDigits(ds)) = p

\* C16: for every port p and session name s, the request startSharing(s, p) sends is
\* serverSharing.startSharing with exactly three positional parameters, in this order:
\* p, s, and the browse URL "http://localhost:<p>".
C16_StartSharingRequestArgs ==
    /\ spc \notin {"init", "call"} => seq = 2
    /\ \A q \in relayInbox :
         /\ q.method = "serverSharing.startSharing"
         /\ Len(q.params) = 3
         /\ q.params[1] = port
         /\ q.params[2] = sessionName
         /\ IsBrowseURLOf(q.params[3], port)

C16_Witness ==
    /\ port = 65535
    /\ sessionName = "http"
    /\ \E q \in relayInbox : q.params[3] = <<"http://localhost:", "6", "5", "5", "3", "5">>

(***************************************************************************)
(* Further properties of ConnectToLiveshare                                *)
(***************************************************************************)

\* C17: a start-workspace request is issued if and only if the state of the record
\* ConnectToLiveshare is given is not "available"; it is issued at most once, and
\* before any re-fetch of the workspace.
C17_StartIffNotAvailable ==
    /\ Count(clog, "start") <= 1
    /\ cpc # "start" => (Count(clog, "start") = 1 <=> given.State # Available)
    /\ Count(clog, "start") = 1 => clog[1] = "start"

C17_Witness ==
    /\ cpc = "done"
    /\ given.State # Available
    /\ clog[1] = "start"
    /\ Polls >= 2
    /\ Count(clog, "join") = 1

IsPoll(e) == e \in {"pollReady", "pollUnready", "pollError"}

\* the number of the poll at position i of the log
PollNumber(i) == Cardinality({k \in 1..i : IsPoll(clog[k])})

\* C18: in the poll loop the controller sleeps only between two consecutive polls,
\* starting after the second poll: no sleep precedes poll #1 or poll #2, and exactly
\* one sleep separates every later pair of consecutive polls.
C18_SleepOnlyBetweenPolls ==
    cpc = "done" =>
        \A i \in 1..Len(clog) :
            /\ clog[i] = "sleep" =>
                 /\ i > 1 /\ IsPoll(clog[i - 1])
                 /\ i < Len(clog) /\ IsPoll(clog[i + 1])
            /\ (IsPoll(clog[i]) /\ PollNumber(i) <= 2) => (i = 1 \/ clog[i - 1] # "sleep")
            /\ (IsPoll(clog[i]) /\ PollNumber(i) > 2) =>
                 (clog[i - 1] = "sleep" /\ IsPoll(clog[i - 2]))

\* C19: when the workspace is ready and join fails, ConnectToLiveshare returns exactly
\* the error join returned, neither wrapped nor replaced; when join succeeds it
\* returns the joined session.
C19_JoinResultUnchanged ==
    (cpc = "done" /\ Count(clog, "join") = 1) =>
        /\ cresult = joinRet
        /\ joinRet.kind \in {"error", "session"}
        /\ connectionReady(codespace)

C19_Witness ==
    /\ cpc = "done"
    /\ Count(clog, "join") = 1
    /\ joinRet = [kind |-> "error", msg |-> "authentication failed"]
    /\ cresult.msg = "authentication failed"

\* a connection descriptor with its four fields set
ValidDescriptor(d) ==
    d.SessionID # "" /\ d.SessionToken # "" /\ d.RelayEndpoint # "" /\ d.RelaySAS # ""

\* C20: for every valid connection descriptor, join succeeds if and only if the relay
\* accepts the session token and workspace.joinWorkspace returns a session number;
\* when the relay rejects the token, join fails with an authentication error.
C20_JoinSucceedsIffAccepted ==
    (joinRet # NoResult /\ ValidDescriptor(joinDesc)) =>
        /\ joinRet.kind = "session" <=>
             (joinRelay.password = joinDesc.SessionToken /\ joinRelay.reply = "sessionNumber")
        /\ joinRelay.password # joinDesc.SessionToken =>
             joinRet = [kind |-> "error", msg |-> "authentication failed"]

C20_Witness ==
    /\ ValidDescriptor(joinDesc)
    /\ joinRelay = [password |-> "expired", reply |-> "sessionNumber"]
    /\ joinRet.kind = "error"

(***************************************************************************)
(* Properties of NewServer                                                 *)
(***************************************************************************)

\* the client has completed Join: Join was called and returned a session
HasJoined == clientJoin.kind = "session"

\* C21: NewServer(client) returns an error when the client has not completed Join, and
\* a server (not nil) with no error when the client has joined.
C21_NewServerNeedsJoinedClient ==
    [][(nsresult = NoServer /\ nsresult' # NoServer) =>
          IF HasJoined THEN nsresult'.kind = "server" /\ nsresult'.session # 0
                       ELSE nsresult'.kind = "error"]_vars

C21_Witness ==
    /\ nsresult.kind = "error"
    /\ clientJoin = [kind |-> "error", msg |-> "authentication failed"]
    /\ client.desc.SessionToken = "session-token"

(***************************************************************************)
(* One-shot listeners and the order of deliveries                          *)
(***************************************************************************)

\* s is a proper prefix of t
ProperPrefix(s, t) == Len(s) < Len(t) /\ SubSeq(t, 1, Len(s)) = s

\* notification b was handled after notification a of the same method: the set Handle
\* found for b is the one it found for a with listeners added, none removed
HandledLater(a, b) ==
    a.method = b.method /\ a.ok /\ a.handlers # <<>> /\ ProperPrefix(a.handlers, b.handlers)

\* listener ch has received the frame req
Received(ch, req) == listeners[ch].st = "cb" /\ listeners[ch].req = req

\* C23: a listener is one-shot: once a notification for its method has arrived it is
\* removed and never offered a second one; when two notifications for the same method
\* arrive back-to-back, the second is never sent to a listener registered before the
\* first.
C23_ListenerIsOneShot ==
    \A a \in arrived : \A b \in arrived :
        HandledLater(a, b) =>
            \A k \in 1..Len(a.handlers) : ~Received(a.handlers[k], b.req)

\* C24: delivery to a listener does not wait on any other listener of the method: if
\* one registered listener never receives from its channel, every other listener that
\* was registered when the notification arrived still receives it. With the context
\* not cancelled, once the delivery goroutines can take no further step, no listener
\* that is receiving is left waiting behind one that is not.
C24_DeliveryDoesNotWaitOnOtherListeners ==
    (~ConnCtxDone /\ ~ENABLED HandlerStep) =>
        \A i \in 1..Len(deliveries) :
            \A k \in 1..Len(deliveries[i].todo) :
                listeners[deliveries[i].todo[k]].st # "recv"

(***************************************************************************)
(* Errors of the start request and of the re-fetches                       *)
(***************************************************************************)

StartError == [kind |-> "error", msg |-> "error starting Codespace"]

FetchError == [kind |-> "error", msg |-> "error getting Codespace"]

\* C29: if the start request or any re-fetch returns an error, ConnectToLiveshare
\* returns an error at once: the request is not retried, no further re-fetch or sleep is
\* performed, and join is never attempted.
C29_RequestErrorReturnsAtOnce ==
    /\ [](Count(clog, "pollError") >= 1 =>
            /\ cpc = "done"
            /\ cresult = FetchError
            /\ Count(clog, "pollError") = 1
            /\ clog[Len(clog)] = "pollError"
            /\ Count(clog, "join") = 0)
    /\ [](cresult = StartError =>
            /\ cpc = "done"
            /\ clog = <<"start">>)
    /\ [][cpc = "done" => (cpc' = "done" /\ clog' = clog /\ cresult' = cresult)]_vars

\* the third re-fetch fails, after a start and a sleep
C29_Witness ==
    /\ cresult = FetchError
    /\ Len(clog) = 5
    /\ clog[1] = "start"
    /\ clog[4] = "sleep"
    /\ clog[5] = "pollError"

(***************************************************************************)
(* Properties of rpcHandler.mutex                                          *)
(***************************************************************************)

\* C22: every mutation of the listener registry, the add in registerEventHandler and the
\* clear after a notification, is performed while the handler's mutex is held by the
\* writer, so the map is never written while another thread reads or writes it.
C22_RegistryWrittenUnderMutex ==
    lastWrite.by # "none" => (lastWrite.locked /\ ~lastWrite.raced)

\* a delivery goroutine is blocked on a listener that never receives
BlockedOnNever ==
    \E i \in 1..Len(deliveries) :
        deliveries[i].todo # <<>> /\ listeners[Head(deliveries[i].todo)].st = "never"

\* C25: Handle returns to the frame-reading thread, releasing the lock, without waiting
\* for any listener to receive: while the program runs, the call holding the mutex can
\* always take its next step towards Unlock, and with the mutex free a further frame can
\* be handled and a further listener registered, whatever the listeners do.
C25_HandleDoesNotWaitForListeners ==
    ~fatal =>
        /\ mutex # Unlocked => ENABLED HolderStep
        /\ (mutex = Unlocked /\ Cardinality(arrived) < MaxNotifs) =>
              \A n \in Frames :
                  (\A a \in arrived : a.method # n.method \/ a.req # n.req) =>
                      ENABLED HandleLock(n.method, n.req)
        /\ (mutex = Unlocked /\ Len(listeners) < MaxListeners) =>
              \A m \in EventMethods : ENABLED RegisterLock(m)

\* a goroutine is blocked on a listener that never receives, and since then a second
\* frame of that method has been handled and a second listener registered
C25_Witness ==
    /\ BlockedOnNever
    /\ mutex = Unlocked
    /\ Len(listeners) = 2
    /\ \E a \in arrived : \E b \in arrived :
          /\ HandledLater(a, b)
          /\ listeners[Head(a.handlers)].st = "never"

(***************************************************************************)
(* Properties of PullRequestList                                           *)
(***************************************************************************)

\* C30: for every limit >= 1, PullRequestList returns at most limit pull requests, in the
\* order the server returned them across pages; every page request asks for at most
\* min(100, limit minus the number already collected) items; and no request is issued
\* after limit items have been collected or after a page reported no next page.
C30_PagesUpToLimit ==
    /\ Len(prs) <= limit
    /\ \A i \in 1..Len(prs) : prs[i] = i
    /\ plresult.kind = "ok" => plresult.prs = prs
    /\ \A k \in 1..Len(requests) :
          /\ requests[k].first <= PageMax
          /\ requests[k].first <= limit - requests[k].collected
          /\ requests[k].collected < limit
          /\ k > 1 => pages[k - 1].hasNextPage
    /\ Len(requests) <= Len(pages) + 1
    /\ plpc = "done" => Len(requests) <= Len(pages) + (IF plresult.kind = "error" THEN 1 ELSE 0)

\* a limit above one page: a full first page, then a request for the two that are missing
C30_Witness ==
    /\ plresult.kind = "ok"
    /\ limit = PageMax + 2
    /\ Len(prs) = limit
    /\ Len(requests) = 2
    /\ requests[1].first = PageMax
    /\ requests[2] = [first |-> 2, after |-> PageMax, collected |-> PageMax]

====
